---------------------------- MODULE Spec2Model ----------------------------
(***************************************************************************)
(* Model of src/Task 4/main.cpp: a single-threaded mbed monitor.  main()   *)
(* calls checkSensors(), uartTask() and a 200 ms sleep for ever.           *)
(*                                                                         *)
(* float values are modelled as exact fixed-point numbers: the float x is  *)
(* the integer x * Scale.  uint32_t values keep their width: the           *)
(* microsecond ticker is a pair of 16-bit limbs, so that the wrap at 2^32  *)
(* is the real one.                                                        *)
(***************************************************************************)
EXTENDS Integers, Sequences, FiniteSets, TLC

(***************************************************************************)
(* Bounds of the model.                                                    *)
(***************************************************************************)
\* Real time explored from the start of main(), in milliseconds, by the
\* specification of the alarm path, of the report clock and of the console.
MaxRunMs == 1900
MaxClockMs == 2400
MaxConsoleMs == 1500

\* The same for the specifications of the converters and of progress, and the largest
\* converter input of the converter laws, in tenths.
MaxConvertMs == 1300
MaxLiveMs == 1700
MaxTenths == 20

(***************************************************************************)
(* Fixed-point floats.                                                     *)
(***************************************************************************)
\* The float x is held as x * Scale.  1100 makes 0.1 steps, the gas
\* threshold 0.5 and the reading 24/330 (24.0 degrees) exact.
Scale == 1100

\* 0.5f, the gas threshold of line 98.
GasThreshold == Scale \div 2

\* 24.0f, the temperature threshold of line 113.
TempThreshold == 24 * Scale

\* buzzer.write(0.5f) and buzzer.write(0.0f).
BuzzerOn == Scale \div 2
BuzzerOff == 0

\* printf's "%.2f": the value rounded to hundredths (half away from zero;
\* every value here is >= 0).
Fmt2(x) == (200 * x + Scale) \div (2 * Scale)

(***************************************************************************)
(* uint32_t arithmetic on 16-bit limbs: [hi, lo] is hi * 2^16 + lo.        *)
(***************************************************************************)
W16 == 65536

U32(n) == [hi |-> (n \div W16) % W16, lo |-> n % W16]

AddU32(a, b) ==
    LET lo == a.lo + b.lo
        hi == a.hi + b.hi + (lo \div W16)
    IN  [hi |-> hi % W16, lo |-> lo % W16]

SubU32(a, b) ==
    LET borrow == IF a.lo < b.lo THEN 1 ELSE 0
        lo == a.lo + borrow * W16 - b.lo
        hi == a.hi - b.hi - borrow
    IN  [hi |-> hi % W16, lo |-> lo]

\* a >= n for a uint32_t a and a small n (n < 2^16).
GeU32(a, n) == a.hi > 0 \/ a.lo >= n

\* uint32_t division by 1000: 65536 = 65 * 1000 + 536.  The quotient is below
\* 2^23 and is returned as a plain integer.
DivU32By1000(a) == a.hi * 65 + ((a.hi * 536 + a.lo) \div 1000)

\* Milliseconds as ticker microseconds.
MsToUs(ms) == U32(ms * 1000)

(***************************************************************************)
(* Unit converters, lines 258-276.                                         *)
(***************************************************************************)
analogReadingScaledWithTheLM35Formula(analogReading) == analogReading * 330

celsiusToFahrenheit(tempInCelsiusDegrees) ==
    (tempInCelsiusDegrees * 9) \div 5 + 32 * Scale

\* Mutant: the 0..30 degree range the comment of line 269 speaks of.
potentiometerScaledToCelsius30(analogValue) == analogValue * 30

potentiometerScaledToCelsius(analogValue) == analogValue * 330

potentiometerScaledToFahrenheit(analogValue) ==
    (potentiometerScaledToCelsius(analogValue) * 9) \div 5 + 32 * Scale

(***************************************************************************)
(* readStableAnalog, lines 248-256.  `reads' is what the ten sensor.read() *)
(* calls return, in order.                                                 *)
(***************************************************************************)
NumReads == 10
ReadDelayMs == 10

RECURSIVE AccumulateReads(_, _, _)
\* The loop of line 251 from index i on, with `reading' the sum so far.
AccumulateReads(reads, i, reading) ==
    IF i < NumReads
    THEN AccumulateReads(reads, i + 1, reading + reads[i + 1])
    ELSE reading

\* Mutant: the first read is left out of the sum.
readStableAnalogSkipFirst(reads) == AccumulateReads(reads, 1, 0) \div NumReads

readStableAnalog(reads) == AccumulateReads(reads, 0, 0) \div NumReads

\* Time one readStableAnalog call sleeps.
StableReadMs == NumReads * ReadDelayMs

(***************************************************************************)
(* Sensor inputs.                                                          *)
(***************************************************************************)
ConstRun(v) == [i \in 1..NumReads |-> v]
AltRun(v, w) == [i \in 1..NumReads |-> IF i % 2 = 1 THEN v ELSE w]
RampRun == [i \in 1..NumReads |-> i * (Scale \div 10)]

\* Gas sensor: 0.3, a noisy 0.4/0.6 run whose mean is exactly 0.5, 0.6, and
\* the ramp 0.1 .. 1.0 (mean 0.55).
GasRuns == {ConstRun(330), AltRun(440, 660), ConstRun(660), RampRun}

\* LM35: 19.8 degrees, a noisy run whose mean is exactly 24.0 degrees, and
\* 24.3 degrees.
TempRuns == {ConstRun(66), AltRun(79, 81), ConstRun(81)}

\* Potentiometer.
PotRuns == {ConstRun(0), RampRun}

\* Single-shot reads of the console streams.
LmRaw == {66, 81}
PotRaw == {0, 1100}

\* Single-shot reads of the converter streams: 0.0, 0.5 and 1.0.
ConvertRaw == {0, 550, 1100}

\* Converter inputs from -1.0 to MaxTenths / 10, in steps of 0.1.
ConvertInputs == {k * (Scale \div 10) : k \in -10..MaxTenths}

(***************************************************************************)
(* Serial input.                                                           *)
(***************************************************************************)
NUL == "NUL"
CommandKeys == {"a", "A", "b", "B", "c", "C", "d", "D", "e", "E", "f", "F"}
QuitKeys == {"q", "Q"}
Keys == CommandKeys \cup QuitKeys \cup {"x"}

\* Mutant: the bytes without a case label of their own select stream a.
SwitchCaseNoDefault(receivedChar) ==
    CASE receivedChar \in {"b", "B"} -> "b"
      [] receivedChar \in {"c", "C"} -> "c"
      [] receivedChar \in {"d", "D"} -> "d"
      [] receivedChar \in {"e", "E"} -> "e"
      [] receivedChar \in {"f", "F"} -> "f"
      [] OTHER -> "a"

\* Mutant: only the lower-case labels exist.
SwitchCaseLowerOnly(receivedChar) ==
    IF receivedChar \in {"a", "b", "c", "d", "e", "f"}
    THEN receivedChar
    ELSE "default"

\* The case label of the switch of line 160 a byte selects.
SwitchCase(receivedChar) ==
    CASE receivedChar \in {"a", "A"} -> "a"
      [] receivedChar \in {"b", "B"} -> "b"
      [] receivedChar \in {"c", "C"} -> "c"
      [] receivedChar \in {"d", "D"} -> "d"
      [] receivedChar \in {"e", "E"} -> "e"
      [] receivedChar \in {"f", "F"} -> "f"
      [] OTHER -> "default"

\* Mutant: only the lower-case q ends the loop.
StreamContinuesUnlessLowerQ(receivedChar) == ~(receivedChar = "q")

\* Mutant: no byte ends the loop.
StreamContinuesForEver(receivedChar) == TRUE

\* Mutant: any byte ends the loop.
StreamContinuesWhileIdle(receivedChar) == receivedChar = NUL

\* The loop condition of lines 163, 174, 185, 197, 210, 225.
StreamContinues(receivedChar) ==
    ~(receivedChar = "q" \/ receivedChar = "Q")

\* pcSerialComCharRead, lines 62-68: the pending byte, or '\0' when none.
pcSerialComCharRead(pending) == IF pending # NUL THEN pending ELSE NUL

(***************************************************************************)
(* Output lines.                                                           *)
(***************************************************************************)
\* A line is its format string (without the trailing CR LF, and with the
\* degree sign left out) and the values sprintf prints into it.
Line(fmt, args) == [fmt |-> fmt, args |-> args]

GasDetectedMsg == Line("Gas detected!", <<>>)
GasClearedMsg == Line("Gas no longer detected.", <<>>)
TempExceedsMsg == Line("ALERT: LM35 temperature exceeds 24C!", <<>>)
TempBelowMsg == Line("LM35 temperature below 24C.", <<>>)
GasAlarmMsg == Line("Gas Alarm", <<>>)
TempAlarmMsg == Line("Temperature Alarm", <<>>)
StatusFmt == "Gas: %.2f, LM35: %.2f C, Potentiometer: %.2f"
\* The nine writes of availableCommands, lines 71-81, as one line.
BannerMsg == Line("available commands", <<>>)

VARIABLES
    pc,                     \* where main() is: "start", "check", "uart", "stream"
    streamCase,             \* the case of uartTask's switch whose loop runs
    rx,                     \* the byte pending in the UART, or NUL
    usTicker,               \* the free-running 32-bit microsecond counter
    lm35Reading, lm35TempC, lm35TempF,
    potentiometerReading, potentiometerScaledToC, potentiometerScaledToF,
    gasDetected, tempExceeded,
    lastGasDetected, lastTempExceeded, lastPrintTime,
    buzzer, led,
    out,                    \* the lines the last step wrote to the UART
    gasReading, currentTime,    \* locals of the last checkSensors call
    nowMs,                  \* real time since main() started (not wrapping)
    lastStatusMs,           \* real time of the last status line, -1 if none
    sessionLines,           \* lines uartTask wrote in this loop iteration
    sessionPolls,           \* polls in its loop that returned neither q nor Q
    sessionQuit,            \* a poll in its loop returned q or Q
    reads,                  \* the analog reads of the last step, in order
    polled                  \* what the last poll of this iteration returned

globals == <<lm35Reading, lm35TempC, lm35TempF, potentiometerReading,
             potentiometerScaledToC, potentiometerScaledToF>>
alarm == <<gasDetected, tempExceeded, lastGasDetected, lastTempExceeded>>
session == <<sessionLines, sessionPolls, sessionQuit>>
vars == <<pc, streamCase, rx, usTicker, globals, alarm, lastPrintTime, buzzer,
          led, out, gasReading, currentTime, nowMs, lastStatusMs, session,
          reads, polled>>

\* One analog read: the input read and the value it returned.
Read(channel, value) == [ch |-> channel, v |-> value]


(***************************************************************************)
(* Time.  The ticker counts microseconds modulo 2^32; nowMs is the real    *)
(* time, which the program cannot see.                                     *)
(***************************************************************************)
SleepMs == 200
StreamDelayMs == 200

\* us_ticker_read() / 1000 of line 128, on the ticker value `ticker'.
TickerMs(ticker) == DivU32By1000(ticker)

Elapse(ms) ==
    /\ usTicker' = AddU32(usTicker, MsToUs(ms))
    /\ nowMs' = nowMs + ms

(***************************************************************************)
(* The state after construction of the globals, lines 4-29 and 85-87.      *)
(***************************************************************************)
InitAt(tickerStarts) ==
    /\ pc = "start"
    /\ streamCase = "default"
    /\ rx = NUL
    /\ usTicker \in tickerStarts
    /\ lm35Reading = 0 /\ lm35TempC = 0 /\ lm35TempF = 0
    /\ potentiometerReading = 0
    /\ potentiometerScaledToC = 0 /\ potentiometerScaledToF = 0
    /\ gasDetected = FALSE /\ tempExceeded = FALSE
    /\ lastGasDetected = FALSE /\ lastTempExceeded = FALSE
    /\ lastPrintTime = 0
    /\ buzzer = BuzzerOff
    /\ led = 0
    /\ out = <<>>
    /\ gasReading = 0 /\ currentTime = 0
    /\ nowMs = 0 /\ lastStatusMs = -1
    /\ sessionLines = 0 /\ sessionPolls = 0 /\ sessionQuit = FALSE
    /\ reads = <<>>
    /\ polled = NUL

(***************************************************************************)
(* main, lines 44-47: the buzzer is switched off and the banner printed.   *)
(***************************************************************************)
Startup ==
    /\ pc = "start"
    /\ pc' = "check"
    /\ buzzer' = BuzzerOff
    /\ out' = <<BannerMsg>>
    /\ reads' = <<>>
    /\ UNCHANGED <<streamCase, rx, usTicker, globals, alarm, lastPrintTime,
                   led, gasReading, currentTime, nowMs, lastStatusMs, session,
                   polled>>

(***************************************************************************)
(* A byte arrives at the UART.  The receiver holds one byte.               *)
(***************************************************************************)
SerialArrive(b) ==
    /\ rx = NUL
    /\ pc # "start"
    /\ rx' = b
    /\ UNCHANGED <<pc, streamCase, usTicker, globals, alarm, lastPrintTime,
                   buzzer, led, out, gasReading, currentTime, nowMs,
                   lastStatusMs, session, reads, polled>>

(***************************************************************************)
(* checkSensors, lines 84-151.                                             *)
(***************************************************************************)
\* Mutants: the comparisons with >= in place of >.
GasOverOrEqual(reading) == reading >= GasThreshold
TempOverOrEqual(tempC) == tempC >= TempThreshold

\* Lines 98 and 113: the threshold comparisons.
GasOver(reading) == reading > GasThreshold
TempOver(tempC) == tempC > TempThreshold

\* Mutant: the entry message on every call the axis is over its threshold.
TransitionLinesByLevel(over, last, entryMsg, exitMsg) ==
    IF over THEN <<entryMsg>> ELSE (IF last THEN <<exitMsg>> ELSE <<>>)

\* Lines 99-110 and 114-125: the message written for one axis, given the
\* threshold result `over' and the static `last'.
TransitionLines(over, last, entryMsg, exitMsg) ==
    IF over
    THEN (IF ~last THEN <<entryMsg>> ELSE <<>>)
    ELSE (IF last THEN <<exitMsg>> ELSE <<>>)

\* Mutant: the static is never cleared.
EdgeMemoryNeverCleared(over, last) == IF over THEN TRUE ELSE last

\* Lines 99-110 and 114-125: the static `last' after the branch.
EdgeMemory(over, last) ==
    IF over
    THEN (IF ~last THEN TRUE ELSE last)
    ELSE (IF last THEN FALSE ELSE last)

\* Mutant: > 1000 in place of >= 1000.
ReportDueAfter(now, last) == GeU32(SubU32(U32(now), U32(last)), 1001)

\* Line 129: currentTime - lastPrintTime >= 1000 in uint32_t arithmetic.
ReportDue(now, last) == GeU32(SubU32(U32(now), U32(last)), 1000)

\* Mutants: the buzzer only when both alarms are active; the temperature
\* line only when the gas line is not written.
BuzzerDutyBoth(gas, temp) == IF gas /\ temp THEN BuzzerOn ELSE BuzzerOff
AlarmLinesElseIf(gas, temp) ==
    IF gas THEN <<GasAlarmMsg>> ELSE (IF temp THEN <<TempAlarmMsg>> ELSE <<>>)

\* Mutant: the LED switched on, not inverted, while an alarm is active.
LedAfterOn(gas, temp, ledNow) == IF gas \/ temp THEN 1 ELSE 0

\* Lines 137-150.
BuzzerDuty(gas, temp) == IF gas \/ temp THEN BuzzerOn ELSE BuzzerOff
LedAfter(gas, temp, ledNow) == IF gas \/ temp THEN 1 - ledNow ELSE 0
AlarmLines(gas, temp) ==
    IF gas \/ temp
    THEN (IF gas THEN <<GasAlarmMsg>> ELSE <<>>)
         \o (IF temp THEN <<TempAlarmMsg>> ELSE <<>>)
    ELSE <<>>

\* Mutant: the status line printed from the globals as they were before the
\* call sampled.
StatusMsgStale(g, c, p) ==
    Line(StatusFmt, <<Fmt2(g), Fmt2(lm35TempC), Fmt2(potentiometerReading)>>)

\* Lines 130-132: the status line of the samples g, c and p.
StatusMsg(g, c, p) == Line(StatusFmt, <<Fmt2(g), Fmt2(c), Fmt2(p)>>)

\* Mutant: the alarm-source lines of lines 141-146 written first.
CheckSensorsLinesAlarmFirst(gasLines, tempLines, statusLines, alarmLines) ==
    alarmLines \o gasLines \o tempLines \o statusLines

\* The lines of one call in the order checkSensors writes them: lines
\* 98-110, 113-125, 129-134 and 137-150.
CheckSensorsLines(gasLines, tempLines, statusLines, alarmLines) ==
    gasLines \o tempLines \o statusLines \o alarmLines

\* The reads one readStableAnalog call makes of the input `channel', which
\* returns the values of `run'.
StableReads(channel, run) == [i \in 1..NumReads |-> Read(channel, run[i])]

\* gasRun, tempRun and potRun are what the thirty sensor reads return; lag
\* is the time the call takes on top of its thirty 10 ms sleeps.
CheckSensors(gasRun, tempRun, potRun, lag) ==
    LET gas == readStableAnalog(gasRun)
        lm == readStableAnalog(tempRun)
        tempC == analogReadingScaledWithTheLM35Formula(lm)
        pot == readStableAnalog(potRun)
        took == 3 * StableReadMs + lag
        now == TickerMs(AddU32(usTicker, MsToUs(took)))
        due == ReportDue(now, lastPrintTime)
    IN  /\ pc = "check"
        /\ pc' = "uart"
        /\ gasReading' = gas
        /\ lm35Reading' = lm
        /\ lm35TempC' = tempC
        /\ lm35TempF' = celsiusToFahrenheit(tempC)
        /\ potentiometerReading' = pot
        /\ gasDetected' = GasOver(gas)
        /\ lastGasDetected' = EdgeMemory(GasOver(gas), lastGasDetected)
        /\ tempExceeded' = TempOver(tempC)
        /\ lastTempExceeded' = EdgeMemory(TempOver(tempC), lastTempExceeded)
        /\ currentTime' = now
        /\ lastPrintTime' = IF due THEN now ELSE lastPrintTime
        /\ lastStatusMs' = IF due THEN nowMs + took ELSE lastStatusMs
        /\ buzzer' = BuzzerDuty(GasOver(gas), TempOver(tempC))
        /\ led' = LedAfter(GasOver(gas), TempOver(tempC), led)
        /\ out' = CheckSensorsLines(
                      TransitionLines(GasOver(gas), lastGasDetected,
                                      GasDetectedMsg, GasClearedMsg),
                      TransitionLines(TempOver(tempC), lastTempExceeded,
                                      TempExceedsMsg, TempBelowMsg),
                      IF due THEN <<StatusMsg(gas, tempC, pot)>> ELSE <<>>,
                      AlarmLines(GasOver(gas), TempOver(tempC)))
        /\ Elapse(took)
        /\ reads' = StableReads("gasSensor", gasRun)
                     \o StableReads("lm35", tempRun)
                     \o StableReads("potentiometer", potRun)
        /\ sessionLines' = 0 /\ sessionPolls' = 0 /\ sessionQuit' = FALSE
        /\ polled' = NUL
        /\ UNCHANGED <<streamCase, rx, potentiometerScaledToC,
                       potentiometerScaledToF>>

(***************************************************************************)
(* uartTask, lines 154-245, up to the head of the selected loop, and the   *)
(* sleep of line 51 when it returns at once.                               *)
(***************************************************************************)
UartTask ==
    LET receivedChar == pcSerialComCharRead(rx)
    IN  /\ pc = "uart"
        /\ rx' = NUL
        /\ out' = <<>>
        /\ reads' = <<>>
        /\ polled' = receivedChar
        /\ IF receivedChar # NUL /\ SwitchCase(receivedChar) # "default"
           THEN /\ pc' = "stream"
                /\ streamCase' = SwitchCase(receivedChar)
                /\ sessionLines' = 0
                /\ sessionPolls' = 0
                /\ sessionQuit' = FALSE
                /\ UNCHANGED <<usTicker, nowMs>>
           ELSE /\ pc' = "check"
                /\ Elapse(SleepMs)
                /\ UNCHANGED <<streamCase, session>>
        /\ UNCHANGED <<globals, alarm, lastPrintTime, buzzer, led, gasReading,
                       currentTime, lastStatusMs>>

(***************************************************************************)
(* One pass of the selected while loop of uartTask: the single-shot reads, *)
(* the line, the 200 ms sleep and the poll; on q or Q the return to main   *)
(* and its sleep of line 51.                                               *)
(***************************************************************************)
StreamFmt(case) ==
    CASE case = "a" -> "Potentiometer reading: %.2f"
      [] case = "b" -> "LM35 reading: %.2f"
      [] case = "c" -> "LM35: %.2f C"
      [] case = "d" -> "LM35: %.2f F"
      [] case = "e" -> "LM35: %.2f C, Potentiometer scaled to C: %.2f"
      [] case = "f" -> "LM35: %.2f F, Potentiometer scaled to F: %.2f"

\* The globals after the body of the loop of `case', and the line it writes;
\* potRaw and lmRaw are what potentiometer.read() and lm35.read() return.
StreamBody(case, potRaw, lmRaw) ==
    LET readsPot == case \in {"a", "e", "f"}
        readsLm == case \in {"b", "c", "d", "e", "f"}
        tempC == analogReadingScaledWithTheLM35Formula(lmRaw)
        tempF == celsiusToFahrenheit(tempC)
        potC == potentiometerScaledToCelsius(potRaw)
        potF == potentiometerScaledToFahrenheit(potRaw)
    IN  [pot |-> IF readsPot THEN potRaw ELSE potentiometerReading,
         potC |-> IF case = "e" THEN potC ELSE potentiometerScaledToC,
         potF |-> IF case = "f" THEN potF ELSE potentiometerScaledToF,
         lm |-> IF readsLm THEN lmRaw ELSE lm35Reading,
         tempC |-> IF case \in {"c", "d", "e", "f"} THEN tempC ELSE lm35TempC,
         tempF |-> IF case \in {"d", "f"} THEN tempF ELSE lm35TempF,
         reads |-> (IF readsPot THEN <<Read("potentiometer", potRaw)>> ELSE <<>>)
                   \o (IF readsLm THEN <<Read("lm35", lmRaw)>> ELSE <<>>),
         line |-> Line(StreamFmt(case),
                       CASE case = "a" -> <<Fmt2(potRaw)>>
                         [] case = "b" -> <<Fmt2(lmRaw)>>
                         [] case = "c" -> <<Fmt2(tempC)>>
                         [] case = "d" -> <<Fmt2(tempF)>>
                         [] case = "e" -> <<Fmt2(tempC), Fmt2(potC)>>
                         [] case = "f" -> <<Fmt2(tempF), Fmt2(potF)>>)]

\* Mutant: the loop re-evaluates the temperature alarm on its own sample.
StreamLeavesButTemp ==
    /\ tempExceeded' = TempOver(lm35TempC')
    /\ UNCHANGED <<streamCase, gasDetected, lastGasDetected, lastTempExceeded,
                   lastPrintTime, buzzer, led, gasReading, currentTime,
                   lastStatusMs>>

\* What the loops of lines 163-239 leave alone: they assign only the six
\* global readings and receivedChar.
StreamLeaves ==
    UNCHANGED <<streamCase, alarm, lastPrintTime, buzzer, led, gasReading,
                currentTime, lastStatusMs>>

StreamStep(potRaw, lmRaw) ==
    LET body == StreamBody(streamCase, potRaw, lmRaw)
        receivedChar == pcSerialComCharRead(rx)
    IN  /\ pc = "stream"
        /\ potentiometerReading' = body.pot
        /\ potentiometerScaledToC' = body.potC
        /\ potentiometerScaledToF' = body.potF
        /\ lm35Reading' = body.lm
        /\ lm35TempC' = body.tempC
        /\ lm35TempF' = body.tempF
        /\ out' = <<body.line>>
        /\ reads' = body.reads
        /\ sessionLines' = sessionLines + 1
        /\ rx' = NUL
        /\ polled' = receivedChar
        /\ sessionPolls' = sessionPolls + (IF receivedChar \in QuitKeys THEN 0 ELSE 1)
        /\ sessionQuit' = (receivedChar \in QuitKeys)
        /\ IF StreamContinues(receivedChar)
           THEN /\ pc' = "stream"
                /\ Elapse(StreamDelayMs)
           ELSE /\ pc' = "check"
                /\ Elapse(StreamDelayMs + SleepMs)
        /\ StreamLeaves

(***************************************************************************)
(* Specifications.                                                         *)
(***************************************************************************)
\* The steps of the program and of the operator within the first `horizon'
\* milliseconds, with the inputs drawn from the given sets.
Running(horizon) == nowMs < horizon

Init == InitAt({U32(0)})

\* The alarm path: every sensor run, a console that streams Celsius.
Next ==
    \/ Running(MaxRunMs) /\ Startup
    \/ \E b \in {"c", "q"} : Running(MaxRunMs) /\ SerialArrive(b)
    \/ \E g \in GasRuns, t \in TempRuns, p \in PotRuns :
          Running(MaxRunMs) /\ CheckSensors(g, t, p, 0)
    \/ Running(MaxRunMs) /\ UartTask
    \/ \E l \in LmRaw : Running(MaxRunMs) /\ StreamStep(0, l)

Spec == Init /\ [][Next]_vars

\* The console: every key and every single-shot read, two sensor runs.
NextConsole ==
    \/ Running(MaxConsoleMs) /\ Startup
    \/ \E b \in Keys : Running(MaxConsoleMs) /\ SerialArrive(b)
    \/ \E g \in {ConstRun(330), ConstRun(660)} :
          Running(MaxConsoleMs)
          /\ CheckSensors(g, ConstRun(66), ConstRun(0), 0)
    \/ Running(MaxConsoleMs) /\ UartTask
    \/ \E p \in PotRaw, l \in LmRaw : Running(MaxConsoleMs) /\ StreamStep(p, l)

SpecConsole == Init /\ [][NextConsole]_vars

\* The report clock: the ticker starts at 0 or 600 ms before it wraps, and a
\* loop iteration takes 500 ms to 1200 ms.
TickerStarts == {U32(0), SubU32(U32(0), MsToUs(600))}
ClockLags == {0, 1, 499, 500, 699, 700}

InitClock == InitAt(TickerStarts)

NextClock ==
    \/ Running(MaxClockMs) /\ Startup
    \/ \E lag \in ClockLags :
          Running(MaxClockMs)
          /\ CheckSensors(ConstRun(330), ConstRun(66), ConstRun(0), lag)
    \/ Running(MaxClockMs) /\ UartTask

SpecClock == InitClock /\ [][NextClock]_vars

\* The converters: the streams d, e and f on every pair of reads.
NextConvert ==
    \/ Running(MaxConvertMs) /\ Startup
    \/ \E b \in {"d", "e", "F", "q"} : Running(MaxConvertMs) /\ SerialArrive(b)
    \/ Running(MaxConvertMs)
       /\ CheckSensors(ConstRun(330), ConstRun(66), ConstRun(0), 0)
    \/ Running(MaxConvertMs) /\ UartTask
    \/ \E p \in ConvertRaw, l \in ConvertRaw :
          Running(MaxConvertMs) /\ StreamStep(p, l)

SpecConvert == Init /\ [][NextConvert]_vars

\* Progress: the steps of the one thread of main, which runs whenever it can
\* (it only ever waits in sleep_for), and an operator who may or may not
\* send a byte.
ThreadStep ==
    \/ Running(MaxLiveMs) /\ Startup
    \/ \E g \in {ConstRun(330), ConstRun(660)} :
          Running(MaxLiveMs) /\ CheckSensors(g, ConstRun(66), ConstRun(0), 0)
    \/ Running(MaxLiveMs) /\ UartTask
    \/ \E l \in LmRaw : Running(MaxLiveMs) /\ StreamStep(0, l)

NextLive ==
    \/ ThreadStep
    \/ \E b \in {"a", "C", "q", "Q", "x"} : Running(MaxLiveMs) /\ SerialArrive(b)

SpecLive == Init /\ [][NextLive]_vars /\ WF_vars(ThreadStep)

(***************************************************************************)
(* Properties.                                                             *)
(***************************************************************************)
\* How often `line' occurs in the lines `lines'.
Count(lines, line) == Cardinality({i \in 1..Len(lines) : lines[i] = line})

\* The formats of the lines `lines'.
Formats(lines) == {lines[i].fmt : i \in 1..Len(lines)}

\* A step is a complete checkSensors call.
CheckSensorsCall == pc = "check" /\ pc' = "uart"

\* checkSensors has completed at least once (a call takes 300 ms or more).
Evaluated == nowMs > 0

\* The lines checkSensors writes.
TransitionMsgs == {GasDetectedMsg, GasClearedMsg, TempExceedsMsg, TempBelowMsg}
EvaluatorFmts ==
    {m.fmt : m \in TransitionMsgs \cup {GasAlarmMsg, TempAlarmMsg}}
    \cup {StatusFmt}

\* C1: in every checkSensors call and for each axis, the entry message is
\* written exactly once when the axis goes from Inactive (its state after the
\* previous call, Inactive before the first) to Active, the exit message
\* exactly once when it goes from Active to Inactive, and neither message
\* when the state stays the same.
C1_EdgeTriggered ==
    [][CheckSensorsCall =>
        /\ Count(out', GasDetectedMsg)
             = (IF ~gasDetected /\ gasReading' > Scale \div 2 THEN 1 ELSE 0)
        /\ Count(out', GasClearedMsg)
             = (IF gasDetected /\ ~(gasReading' > Scale \div 2) THEN 1 ELSE 0)
        /\ Count(out', TempExceedsMsg)
             = (IF ~tempExceeded /\ lm35TempC' > 24 * Scale THEN 1 ELSE 0)
        /\ Count(out', TempBelowMsg)
             = (IF tempExceeded /\ ~(lm35TempC' > 24 * Scale) THEN 1 ELSE 0)
      ]_vars

\* C1 witness: a call in which gas, detected before, is no longer detected
\* and the temperature newly exceeds its threshold.
C1_Witness ==
    /\ pc = "uart"
    /\ Count(out, GasClearedMsg) = 1
    /\ Count(out, TempExceedsMsg) = 1

\* C2 as claimed: in every state after the first checkSensors call, console
\* sessions included, gasDetected is (most recent gas reading > 0.5) and
\* tempExceeded is (lm35TempC > 24.0).
C2_AlarmTracksGlobals ==
    Evaluated =>
        /\ gasDetected = (gasReading > Scale \div 2)
        /\ tempExceeded = (lm35TempC > 24 * Scale)

\* C2 as amended: the same, in the states in which no stream pass has run
\* since the last checkSensors call; gasDetected is the thresholded gas
\* reading of the last call in every state.
C2_AlarmTracksSamples ==
    Evaluated =>
        /\ gasDetected = (gasReading > Scale \div 2)
        /\ sessionLines = 0 => tempExceeded = (lm35TempC > 24 * Scale)

\* C2 witness: a console session has been entered with the temperature
\* alarm active and no pass of it has run yet.
C2_Witness ==
    /\ pc = "stream"
    /\ sessionLines = 0
    /\ tempExceeded
    /\ lm35TempC > 24 * Scale

\* C3: from the entry to a stream loop until it is left, the alarm flags,
\* the edge memory, lastPrintTime, the buzzer and the LED do not change and
\* no line of checkSensors is written.
C3_SessionFrame ==
    [][(pc = "stream" \/ pc' = "stream") =>
        /\ UNCHANGED <<gasDetected, tempExceeded, lastGasDetected,
                       lastTempExceeded, lastPrintTime, buzzer, led>>
        /\ Formats(out') \cap EvaluatorFmts = {}
      ]_vars

\* C3 witness: two passes into a session entered with the gas alarm on, a
\* temperature sample above the threshold has been streamed and the
\* temperature alarm is still off.
C3_Witness ==
    /\ pc = "stream"
    /\ sessionLines >= 2
    /\ gasDetected /\ buzzer = BuzzerOn
    /\ lm35TempC > 24 * Scale
    /\ ~tempExceeded

\* C4: the buzzer duty cycle is 0.5 or 0.0 at all times, and after every
\* checkSensors call it is 0.5 exactly when that call's gas sample is above
\* 0.5 or its temperature above 24.0.
C4_BuzzerDuty ==
    /\ buzzer \in {Scale \div 2, 0}
    /\ pc = "uart" =>
          buzzer = (IF gasReading > Scale \div 2 \/ lm35TempC > 24 * Scale
                    THEN Scale \div 2 ELSE 0)

\* C4 witness: a call has ended with only the temperature alarm active and
\* the buzzer on.
C4_Witness ==
    /\ pc = "uart"
    /\ tempExceeded /\ ~gasDetected
    /\ buzzer = Scale \div 2

\* C5: every checkSensors call writes "Gas Alarm" once if gasDetected holds
\* after it and not at all otherwise, and likewise "Temperature Alarm" for
\* tempExceeded, whatever the edge memory was; "Gas Alarm" comes first.
C5_AlarmLinesByLevel ==
    [][CheckSensorsCall =>
        /\ Count(out', GasAlarmMsg) = (IF gasDetected' THEN 1 ELSE 0)
        /\ Count(out', TempAlarmMsg) = (IF tempExceeded' THEN 1 ELSE 0)
        /\ \A i, j \in 1..Len(out') :
              out'[i] = GasAlarmMsg /\ out'[j] = TempAlarmMsg => i < j
      ]_vars

\* C5 witness: a call with both alarms active before and after it wrote both
\* alarm lines and no transition message.
C5_Witness ==
    /\ pc = "uart"
    /\ out = <<GasAlarmMsg, TempAlarmMsg>>
    /\ lastGasDetected /\ lastTempExceeded

\* The status lines among `lines'.
StatusLines(lines) == {i \in 1..Len(lines) : lines[i].fmt = StatusFmt}

\* C6: two consecutive status lines are at least 1000 ms of real time apart.
C6_StatusSpacing ==
    [][(lastStatusMs # -1 /\ lastStatusMs' # lastStatusMs) =>
          lastStatusMs' - lastStatusMs >= 1000]_vars

\* currentTime - lastPrintTime >= 1000 as the 32-bit subtraction decides it:
\* both are below 2^32 / 1000, so a negative difference wraps to more than
\* 2^32 - 2^23.
Wrapped1000(now, last) == IF now >= last THEN now - last >= 1000 ELSE TRUE

RECURSIVE ReportRun(_, _, _)
\* Which of the calls at the ticks ticks[i], ticks[i + 1], ... write a status
\* line, with lastPrintTime = last before the first of them.
ReportRun(ticks, i, last) ==
    IF i > Len(ticks)
    THEN <<>>
    ELSE <<ReportDue(ticks[i], last)>>
         \o ReportRun(ticks, i + 1,
                      IF ReportDue(ticks[i], last) THEN ticks[i] ELSE last)

\* C7: a checkSensors call that reads the tick currentTime writes one status
\* line if currentTime - lastPrintTime >= 1000 (in 32-bit arithmetic) and
\* sets lastPrintTime to currentTime; otherwise it writes none and leaves
\* lastPrintTime alone.  Calls at ticks 0, 400, 900 and 1050 from
\* lastPrintTime = 0 write one status line, at 1050.
C7_ReportGate ==
    [][CheckSensorsCall =>
        /\ Cardinality(StatusLines(out'))
             = (IF Wrapped1000(currentTime', lastPrintTime) THEN 1 ELSE 0)
        /\ lastPrintTime' = (IF Wrapped1000(currentTime', lastPrintTime)
                             THEN currentTime' ELSE lastPrintTime)
        /\ ReportRun(<<0, 400, 900, 1050>>, 1, 0) = <<FALSE, FALSE, FALSE, TRUE>>
      ]_vars

\* C7 witness: the first call read the tick 1000, exactly 1000 after the
\* initial lastPrintTime, and wrote the status line.
C7_Witness ==
    /\ pc = "uart"
    /\ currentTime = 1000
    /\ lastPrintTime = 1000
    /\ StatusLines(out) # {}

\* C8: the edge memory equals the alarm state after every checkSensors call,
\* and a console session leaves both alone.
C8_EdgeMemorySynced ==
    /\ lastGasDetected = gasDetected
    /\ lastTempExceeded = tempExceeded

\* C8 witness: a console session that began with the gas alarm on and the
\* temperature alarm off has ended.
C8_Witness ==
    /\ pc = "check"
    /\ sessionQuit
    /\ gasDetected /\ lastGasDetected
    /\ ~tempExceeded /\ ~lastTempExceeded

\* C9: after a checkSensors call gasDetected holds exactly when the averaged
\* gas reading is strictly above 0.5 and tempExceeded exactly when the
\* derived temperature is strictly above 24.0, each whatever the other
\* sample is.
C9_StrictThresholds ==
    [][CheckSensorsCall =>
        /\ gasDetected' = (gasReading' > Scale \div 2)
        /\ gasReading' = Scale \div 2 => ~gasDetected'
        /\ tempExceeded' = (lm35TempC' > 24 * Scale)
        /\ lm35TempC' = 24 * Scale => ~tempExceeded'
      ]_vars

\* C9 witness: a call averaged the gas reading to exactly 0.5 and left
\* gasDetected false while the temperature alarm is active.
C9_Witness ==
    /\ pc = "uart"
    /\ gasReading = Scale \div 2
    /\ ~gasDetected
    /\ tempExceeded

\* C9 second case: exactly 24.0 degrees leaves tempExceeded false while gas
\* is detected.
C9_WitnessTemp ==
    /\ pc = "uart"
    /\ lm35TempC = 24 * Scale
    /\ ~tempExceeded
    /\ gasDetected

\* C10: a console session writes one line per pass; while it runs it has
\* written as many lines as polls returned something other than q or Q, and
\* once a poll has returned q or Q it has ended with one line more than
\* that.  With q at the first poll of stream a it is one potentiometer line.
C10_SessionLines ==
    /\ pc = "stream" => ~sessionQuit /\ sessionLines = sessionPolls
    /\ sessionQuit => pc = "check" /\ sessionLines = 1 + sessionPolls
    /\ (sessionQuit /\ streamCase = "a" /\ sessionPolls = 0) =>
          /\ Len(out) = 1
          /\ out[1].fmt = "Potentiometer reading: %.2f"

\* C10 witness: stream a has ended at its first poll after one line.
C10_Witness ==
    /\ pc = "check"
    /\ sessionQuit
    /\ streamCase = "a"
    /\ sessionPolls = 0
    /\ sessionLines = 1
    /\ Len(out) = 1

\* C10 second case: a session has ended after three polls that did not
\* return q or Q.
C10_WitnessLong ==
    /\ pc = "check"
    /\ sessionQuit
    /\ sessionPolls = 3
    /\ sessionLines = 4

\* A step is a uartTask call, up to its return or to the head of a loop.
UartTaskCall == pc = "uart" /\ pc' # "uart"

\* A step is one pass of a stream loop.
StreamPass == pc = "stream" /\ sessionLines' = sessionLines + 1

\* C11: when the byte uartTask reads is none of a-f and A-F, or no byte is
\* pending, uartTask enters no loop, writes no line, reads no sensor, changes
\* no global reading and no alarm state, and main goes on to its 200 ms
\* sleep; the pending byte, if any, is consumed.
C11_OtherByteNoOp ==
    [][(UartTaskCall /\ rx \notin CommandKeys) =>
        /\ pc' = "check"
        /\ out' = <<>>
        /\ reads' = <<>>
        /\ UNCHANGED <<lm35Reading, lm35TempC, lm35TempF, potentiometerReading,
                       potentiometerScaledToC, potentiometerScaledToF>>
        /\ UNCHANGED <<gasDetected, tempExceeded, lastGasDetected,
                       lastTempExceeded, lastPrintTime, buzzer, led>>
        /\ sessionLines' = 0
        /\ rx' = NUL
        /\ nowMs' = nowMs + 200
      ]_vars

\* C11 witness: uartTask read q with no session running and returned, with
\* the gas alarm active.
C11_Witness ==
    /\ pc = "check"
    /\ polled = "q"
    /\ ~sessionQuit
    /\ sessionLines = 0
    /\ rx = NUL
    /\ gasDetected /\ buzzer = BuzzerOn

\* The channels of the reads `rs', in order.
Channels(rs) == [i \in 1..Len(rs) |-> rs[i].ch]

RECURSIVE SumReads(_, _, _)
\* The sum of the values of the reads rs[from], ..., rs[to].
SumReads(rs, from, to) ==
    IF from > to THEN 0 ELSE rs[from].v + SumReads(rs, from + 1, to)

\* The place of a line of checkSensors in the order evaluate gas, evaluate
\* temperature, report, actuate.
StageOf(line) ==
    CASE line \in {GasDetectedMsg, GasClearedMsg} -> 1
      [] line \in {TempExceedsMsg, TempBelowMsg} -> 2
      [] line.fmt = StatusFmt -> 3
      [] line = GasAlarmMsg -> 4
      [] line = TempAlarmMsg -> 5
      [] OTHER -> 0

\* C12: a main-loop iteration samples gas, then LM35, then the potentiometer,
\* evaluates the thresholds on those samples and writes the transition
\* messages, then the status line, then actuates and writes the alarm-source
\* lines; only then does it poll the console, and it sleeps 200 ms after
\* uartTask returns.  A byte pending during checkSensors stays pending.
C12_IterationOrder ==
    [][/\ CheckSensorsCall =>
            /\ Channels(reads') =
                 [i \in 1..30 |-> IF i <= 10 THEN "gasSensor"
                                  ELSE IF i <= 20 THEN "lm35"
                                  ELSE "potentiometer"]
            /\ gasDetected' = (SumReads(reads', 1, 10) > 10 * (Scale \div 2))
            /\ tempExceeded' = (SumReads(reads', 11, 20) * 330 > 10 * 24 * Scale)
            /\ buzzer' = (IF gasDetected' \/ tempExceeded'
                          THEN Scale \div 2 ELSE 0)
            /\ \A i, j \in 1..Len(out') :
                  i < j => /\ StageOf(out'[i]) >= 1
                           /\ StageOf(out'[i]) < StageOf(out'[j])
            /\ rx' = rx
       /\ (pc' # pc) =>
            \/ pc = "start" /\ pc' = "check"
            \/ pc = "check" /\ pc' = "uart"
            \/ pc = "uart" /\ pc' \in {"check", "stream"}
            \/ pc = "stream" /\ pc' = "check"
       /\ (rx # NUL /\ rx' # rx) => pc \in {"uart", "stream"}
       /\ (pc = "uart" /\ pc' = "check") => nowMs' = nowMs + 200
       /\ (pc = "stream" /\ pc' = "check") => nowMs' = nowMs + 200 + 200
      ]_vars

\* C12 witness: a call wrote both transition messages, the status line and
\* both alarm lines, in that order, while a command byte stays pending.
C12_Witness ==
    /\ pc = "uart"
    /\ rx = "c"
    /\ Len(out) = 5
    /\ out[1] = GasDetectedMsg /\ out[2] = TempExceedsMsg
    /\ out[3].fmt = StatusFmt
    /\ out[4] = GasAlarmMsg /\ out[5] = TempAlarmMsg

\* C13: a status line prints the gas, LM35 Celsius and potentiometer values
\* averaged from the reads of the same checkSensors call, which are the
\* values its thresholds were evaluated on, whatever a console session left
\* in the global readings before.
C13_StatusFromThisCall ==
    [][CheckSensorsCall =>
        \A i \in StatusLines(out') :
            /\ out'[i].args = <<Fmt2(SumReads(reads', 1, 10) \div 10),
                                Fmt2((SumReads(reads', 11, 20) \div 10) * 330),
                                Fmt2(SumReads(reads', 21, 30) \div 10)>>
            /\ out'[i].args = <<Fmt2(gasReading'), Fmt2(lm35TempC'),
                                Fmt2(potentiometerReading')>>
      ]_vars

\* C13 witness: after a console session streamed Celsius (19.80 or 24.30), a
\* call that sampled 24.00 degrees wrote a status line with 24.00.
C13_Witness ==
    /\ pc = "uart"
    /\ streamCase = "c"
    /\ lm35TempC = 24 * Scale
    /\ \E i \in StatusLines(out) : out[i].args[2] = 2400

\* C14: a checkSensors call with neither alarm active leaves the LED off; a
\* call with an alarm active leaves it the inverse of what it was, so the
\* first alarm-active call after an inactive one (or after startup) leaves
\* it on and consecutive alarm-active calls alternate it.
C14_LedToggle ==
    [][CheckSensorsCall =>
        /\ ~(gasDetected' \/ tempExceeded') => led' = 0
        /\ (gasDetected' \/ tempExceeded') => led' = 1 - led
        /\ (~(gasDetected \/ tempExceeded) /\ (gasDetected' \/ tempExceeded'))
              => led' = 1
      ]_vars

\* C14 witness: with the alarm active for a second call in a row the LED is
\* off again.
C14_Witness ==
    /\ pc = "uart"
    /\ gasDetected
    /\ Count(out, GasDetectedMsg) = 0
    /\ Count(out, TempExceedsMsg) = 0
    /\ led = 0

\* The lower-case letter of a command byte.
LowerCase(b) ==
    CASE b = "A" -> "a" [] b = "B" -> "b" [] b = "C" -> "c"
      [] b = "D" -> "d" [] b = "E" -> "e" [] b = "F" -> "f"
      [] OTHER -> b

\* The value, of the single read of `channel' in `rs', or -1 when `rs' has
\* no read or several reads of it.
SingleShot(rs, channel) ==
    LET is == {i \in 1..Len(rs) : rs[i].ch = channel}
    IN  IF Cardinality(is) = 1 THEN rs[CHOOSE i \in is : TRUE].v ELSE -1

\* The line a pass of the stream `letter' is to write from the single-shot
\* reads pot and lm, as the command list describes the streams.
StreamLineOf(letter, pot, lm) ==
    CASE letter = "a" ->
           Line("Potentiometer reading: %.2f", <<Fmt2(pot)>>)
      [] letter = "b" ->
           Line("LM35 reading: %.2f", <<Fmt2(lm)>>)
      [] letter = "c" ->
           Line("LM35: %.2f C", <<Fmt2(lm * 330)>>)
      [] letter = "d" ->
           Line("LM35: %.2f F", <<Fmt2((lm * 330 * 9) \div 5 + 32 * Scale)>>)
      [] letter = "e" ->
           Line("LM35: %.2f C, Potentiometer scaled to C: %.2f",
                <<Fmt2(lm * 330), Fmt2(pot * 330)>>)
      [] letter = "f" ->
           Line("LM35: %.2f F, Potentiometer scaled to F: %.2f",
                <<Fmt2((lm * 330 * 9) \div 5 + 32 * Scale),
                  Fmt2((pot * 330 * 9) \div 5 + 32 * Scale)>>)

\* The channels a pass of the stream `letter' reads.
StreamChannels(letter) ==
    CASE letter = "a" -> {"potentiometer"}
      [] letter \in {"b", "c", "d"} -> {"lm35"}
      [] letter \in {"e", "f"} -> {"potentiometer", "lm35"}

\* C15: a command byte, lower or upper case, starts the session of its
\* lower-case letter; every pass of that session reads each channel of the
\* stream once, and no other channel, and writes the one line of that
\* stream's format computed from those reads.
C15_StreamFormats ==
    [][/\ (UartTaskCall /\ rx \in CommandKeys) =>
            /\ pc' = "stream"
            /\ streamCase' = LowerCase(rx)
       /\ StreamPass =>
            /\ {reads'[i].ch : i \in 1..Len(reads')} = StreamChannels(streamCase)
            /\ Len(reads') = Cardinality(StreamChannels(streamCase))
            /\ out' = <<StreamLineOf(streamCase,
                                     SingleShot(reads', "potentiometer"),
                                     SingleShot(reads', "lm35"))>>
      ]_vars

\* C15 witness: the first pass of a session of stream f has written its line
\* from the reads 1.0 and 0.06.
C15_Witness ==
    /\ pc = "stream"
    /\ streamCase = "f"
    /\ sessionLines = 1
    /\ reads = <<Read("potentiometer", 1100), Read("lm35", 66)>>
    /\ out = <<Line("LM35: %.2f F, Potentiometer scaled to F: %.2f",
                    <<6764, 62600>>)>>

\* The values of the reads rs[from], ..., rs[to], in order.
ReadValues(rs, from, to) == [i \in 1..(to - from + 1) |-> rs[from + i - 1].v]

\* C16: a checkSensors call makes thirty reads, ten of the gas sensor, then
\* ten of the LM35, then ten of the potentiometer, and each of its three
\* averages is the sum of the ten reads of its input divided by 10; the
\* reads 0.1, 0.2, ..., 1.0 average to 0.55, and reads within [0, 1] average
\* to a value within [0, 1].
C16_StableMean ==
    [][CheckSensorsCall =>
        /\ Len(reads') = 30
        /\ \A i \in 1..30 :
              reads'[i].ch = (IF i <= 10 THEN "gasSensor"
                              ELSE IF i <= 20 THEN "lm35" ELSE "potentiometer")
        /\ 10 * gasReading' = SumReads(reads', 1, 10)
        /\ 10 * lm35Reading' = SumReads(reads', 11, 20)
        /\ 10 * potentiometerReading' = SumReads(reads', 21, 30)
        /\ ReadValues(reads', 1, 10)
              = <<110, 220, 330, 440, 550, 660, 770, 880, 990, 1100>>
             => gasReading' = 605
        /\ (\A i \in 1..30 : reads'[i].v >= 0 /\ reads'[i].v <= Scale)
             => /\ gasReading' >= 0 /\ gasReading' <= Scale
                /\ lm35Reading' >= 0 /\ lm35Reading' <= Scale
                /\ potentiometerReading' >= 0 /\ potentiometerReading' <= Scale
      ]_vars

\* C16 witness: a call has read 0.1, 0.2, ..., 1.0 from the gas sensor and
\* averaged them to 0.55.
C16_Witness ==
    /\ pc = "uart"
    /\ Len(reads) = 30
    /\ ReadValues(reads, 1, 10)
         = <<110, 220, 330, 440, 550, 660, 770, 880, 990, 1100>>
    /\ gasReading = 605
    /\ Fmt2(gasReading) = 55

C18_SessionEndsOnQuit ==
    [][/\ StreamPass =>
            /\ rx' = NUL
            /\ polled' = rx
            /\ pc' = (IF rx \in {"q", "Q"} THEN "check" ELSE "stream")
            /\ streamCase' = streamCase
            /\ Len(out') = 1
            /\ out'[1].fmt = StreamLineOf(streamCase, 0, 0).fmt
       /\ pc = "stream" =>
            /\ pc' \in {"stream", "check"}
            /\ streamCase' = streamCase
            /\ pc' = "check" => rx \in {"q", "Q"}
      ]_vars

\* C18 witness: the second or a later pass of stream a has polled the byte
\* b and the session goes on with stream a.
C18_Witness ==
    /\ pc = "stream"
    /\ streamCase = "a"
    /\ polled = "b"
    /\ sessionLines >= 2
    /\ rx = NUL
    /\ out[1].fmt = "Potentiometer reading: %.2f"

\* A checkSensors call has just returned.
CheckSensorsDone == pc = "uart" /\ Len(reads) = 30

\* C19: a session in which no q or Q ever arrives never ends, so that
\* checkSensors is not called again; a session with a q or Q pending ends
\* and checkSensors is called again; outside a session a checkSensors call
\* returns, and uartTask returns or enters a session, so that the main loop
\* keeps calling checkSensors.  (Progress is claimed of the states from
\* which the explored time suffices for the steps in question.)
C19_AlarmPathProgress ==
    /\ []((pc = "stream" /\ [](rx \notin QuitKeys))
            => [](pc = "stream" /\ ~CheckSensorsDone))
    /\ (pc = "stream" /\ rx \in QuitKeys /\ nowMs + 400 < MaxLiveMs)
          ~> CheckSensorsDone
    /\ (pc = "check" /\ nowMs < MaxLiveMs) ~> CheckSensorsDone
    /\ (pc = "uart" /\ nowMs < MaxLiveMs) ~> (pc \in {"check", "stream"})
    /\ (pc = "uart" /\ rx \notin CommandKeys /\ nowMs + 200 < MaxLiveMs
          /\ [](rx \notin CommandKeys))
          ~> (pc = "check")

\* C19 witness: checkSensors has been called again after a session of
\* stream a.
C19_Witness ==
    /\ CheckSensorsDone
    /\ streamCase = "a"
    /\ nowMs >= 900

====
